---------------------------- MODULE Spec2Model ----------------------------
(***************************************************************************)
(* InvoiceHelper (src/src/main.py): the extraction / allocation /          *)
(* validation pipeline of process_invoice.                                 *)
(*                                                                         *)
(* Amounts are Python floats (IEEE-754 binary64).  They are modelled bit   *)
(* for bit: a float is a record [m, e] standing for m * 2^e, m a 53-bit    *)
(* integer kept as a little-endian sequence of 15-bit limbs (<<>> is 0),   *)
(* and every operation rounds to nearest, ties to even, as the hardware    *)
(* does.  All amounts of the program are non-negative and far from the     *)
(* exponent limits, so signs, subnormals and infinities are not modelled;  *)
(* the one subtraction of the program is always taken under abs().         *)
(*                                                                         *)
(* The OCR text is modelled by what the regular expressions of             *)
(* parse_license_info find in it: the sequence of billing lines, each with *)
(* its layout, its license type and its three captured numeric tokens, and *)
(* the amount captured after the "Summa Avtal" anchor, if any.             *)
(*                                                                         *)
(* The specifications:                                                     *)
(*   Spec          a run of process_invoice, call by call                  *)
(*   FairSpec      the same run, which never stops between two calls       *)
(*   SpecAlloc     parse_license_info, then generate_accounting_rows, on   *)
(*                 any invoice and roster of the bounded input sets        *)
(*   SpecValidate  parse_license_info, then validate_accounting_rows on    *)
(*                 any rows a caller may pass                              *)
(*   SpecSettings  the construction from any settings sheet, then a lookup *)
(*                 by get_project_settings, or parse_license_info,         *)
(*                 generate_accounting_rows and generate_invoice_comment   *)
(***************************************************************************)
EXTENDS Integers, Sequences, FiniteSets, TLC

(***************************************************************************)
(* Unbounded naturals: little-endian limbs, no leading zero limb.          *)
(***************************************************************************)
Base == 2^15

BNorm(a) ==
    LET RECURSIVE strip(_)
        strip(s) == IF s = <<>> THEN <<>>
                    ELSE IF s[Len(s)] = 0 THEN strip(SubSeq(s, 1, Len(s) - 1))
                    ELSE s
    IN strip(a)

RECURSIVE BFromInt(_)
BFromInt(n) == IF n = 0 THEN <<>> ELSE <<n % Base>> \o BFromInt(n \div Base)

RECURSIVE BToInt(_)
BToInt(a) == IF a = <<>> THEN 0 ELSE Head(a) + Base * BToInt(Tail(a))

RECURSIVE BAddC(_, _, _)
BAddC(a, b, c) ==
    IF a = <<>> /\ b = <<>> THEN (IF c = 0 THEN <<>> ELSE <<c>>)
    ELSE LET x == (IF a = <<>> THEN 0 ELSE Head(a))
                  + (IF b = <<>> THEN 0 ELSE Head(b)) + c
         IN <<x % Base>> \o BAddC(IF a = <<>> THEN a ELSE Tail(a),
                                   IF b = <<>> THEN b ELSE Tail(b),
                                   x \div Base)

BAdd(a, b) == BNorm(BAddC(a, b, 0))

RECURSIVE BSubC(_, _, _)
BSubC(a, b, c) ==
    IF a = <<>> THEN <<>>
    ELSE LET x == Head(a) - (IF b = <<>> THEN 0 ELSE Head(b)) - c
         IN <<x % Base>> \o BSubC(Tail(a), IF b = <<>> THEN b ELSE Tail(b),
                                   IF x < 0 THEN 1 ELSE 0)

\* a - b, for a >= b
BSub(a, b) == BNorm(BSubC(a, b, 0))

RECURSIVE BCmpAt(_, _, _)
BCmpAt(a, b, i) ==
    IF i = 0 THEN 0
    ELSE IF a[i] < b[i] THEN -1
    ELSE IF a[i] > b[i] THEN 1
    ELSE BCmpAt(a, b, i - 1)

BCmp(a, b) ==
    IF Len(a) < Len(b) THEN -1
    ELSE IF Len(a) > Len(b) THEN 1
    ELSE BCmpAt(a, b, Len(a))

RECURSIVE BMulC(_, _, _)
BMulC(a, k, c) ==
    IF a = <<>> THEN BFromInt(c)
    ELSE LET x == Head(a) * k + c
         IN <<x % Base>> \o BMulC(Tail(a), k, x \div Base)

\* a * k, for 0 <= k < Base
BMulSmall(a, k) == IF k = 0 THEN <<>> ELSE BMulC(a, k, 0)

RECURSIVE BMulAt(_, _, _)
BMulAt(a, b, i) ==
    IF i > Len(b) THEN <<>>
    ELSE BAdd([j \in 1..(i - 1) |-> 0] \o BMulSmall(a, b[i]), BMulAt(a, b, i + 1))

BMul(a, b) == BNorm(BMulAt(a, b, 1))

RECURSIVE BDivAt(_, _, _, _, _)
BDivAt(a, d, i, r, q) ==
    IF i = 0 THEN [q |-> BNorm(q), r |-> r]
    ELSE LET cur == r * Base + a[i]
         IN BDivAt(a, d, i - 1, cur % d, <<cur \div d>> \o q)

\* quotient and remainder of a by d, for 0 < d <= Base
BDivSmall(a, d) == BDivAt(a, d, Len(a), 0, <<>>)

\* a * 2^s
BShl(a, s) ==
    IF a = <<>> THEN <<>>
    ELSE [i \in 1..(s \div 15) |-> 0] \o BMulSmall(a, 2^(s % 15))

\* a \div 2^s, and whether a nonzero remainder was dropped
BShr(a, s) ==
    LET k    == s \div 15
        low  == SubSeq(a, 1, IF k < Len(a) THEN k ELSE Len(a))
        rest == SubSeq(a, k + 1, Len(a))
        D    == BDivSmall(rest, 2^(s % 15))
    IN [q |-> D.q, st |-> (D.r # 0) \/ (\E i \in 1..Len(low) : low[i] # 0)]

RECURSIVE IntBitLen(_)
IntBitLen(n) == IF n = 0 THEN 0 ELSE 1 + IntBitLen(n \div 2)

BBitLen(a) == IF a = <<>> THEN 0 ELSE 15 * (Len(a) - 1) + IntBitLen(a[Len(a)])

BOdd(a) == a # <<>> /\ a[1] % 2 = 1

(***************************************************************************)
(* binary64.  FRoundEven(M, E, st) is the float nearest to the exact value *)
(* M * 2^E (plus a nonzero amount below M's last bit when st), ties to     *)
(* even; the result's m has exactly 53 bits, so equal floats are equal     *)
(* records.                                                                *)
(***************************************************************************)
FZero == [m |-> <<>>, e |-> 0]

FRoundEven(M, E, st) ==
    LET L == BBitLen(M)
    IN IF M = <<>> THEN FZero
       ELSE IF L <= 53 THEN [m |-> BShl(M, 53 - L), e |-> E - (53 - L)]
       ELSE LET s  == L - 53
                D  == BShr(M, s - 1)
                q  == BDivSmall(D.q, 2).q
                up == BOdd(D.q) /\ (D.st \/ st \/ BOdd(q))
                m  == IF up THEN BAdd(q, <<1>>) ELSE q
            IN IF BBitLen(m) > 53
               THEN [m |-> BDivSmall(m, 2).q, e |-> E + s + 1]
               ELSE [m |-> m, e |-> E + s]

\* float("<n with k decimals>"): the float nearest to n / 10^k (k <= 4)
FParse(n, k) ==
    LET D == BDivSmall(BShl(BFromInt(n), 75), 10^k)
    IN FRoundEven(D.q, -75, D.r # 0)

FAlign(a, b) ==
    LET e == IF a.e < b.e THEN a.e ELSE b.e
    IN [x |-> BShl(a.m, a.e - e), y |-> BShl(b.m, b.e - e), e |-> e]

\* a + b
FAdd(a, b) ==
    IF a.m = <<>> THEN b
    ELSE IF b.m = <<>> THEN a
    ELSE LET A == FAlign(a, b) IN FRoundEven(BAdd(A.x, A.y), A.e, FALSE)

\* abs(a - b)
FAbsDiff(a, b) ==
    IF a.m = <<>> THEN b
    ELSE IF b.m = <<>> THEN a
    ELSE LET A == FAlign(a, b)
         IN IF BCmp(A.x, A.y) >= 0
            THEN FRoundEven(BSub(A.x, A.y), A.e, FALSE)
            ELSE FRoundEven(BSub(A.y, A.x), A.e, FALSE)

\* n * a, n an int (0 <= n < Base)
FMulInt(n, a) == FRoundEven(BMulSmall(a.m, n), a.e, FALSE)

\* a * b
FMul(a, b) == FRoundEven(BMul(a.m, b.m), a.e + b.e, FALSE)

\* a / n, n an int (0 < n < Base)
FDivInt(a, n) ==
    LET D == BDivSmall(BShl(a.m, 15), n)
    IN FRoundEven(D.q, a.e - 15, D.r # 0)

\* a <= b
FLe(a, b) ==
    IF a.m = <<>> THEN TRUE
    ELSE IF b.m = <<>> THEN FALSE
    ELSE a.e < b.e \/ (a.e = b.e /\ BCmp(a.m, b.m) <= 0)

\* round(a, 2): CPython rounds the exact binary value of a to two decimals,
\* half to even, and returns the float nearest to that decimal.
FRound2(a) ==
    IF a.m = <<>> THEN FZero
    ELSE LET D  == BShr(BMulSmall(a.m, 100), (-a.e) - 1)
             q  == BDivSmall(D.q, 2).q
             up == BOdd(D.q) /\ (D.st \/ BOdd(q))
         IN FParse(BToInt(q) + (IF up THEN 1 ELSE 0), 2)


(***************************************************************************)
(* Python values.  None is <<>> and a present value x is <<x>>.  A string  *)
(* that may carry the 'P.' prefix is the sequence of its parts, so that    *)
(* 'P.20257601' is <<"P.", "20257601">>.                                   *)
(***************************************************************************)
None == <<>>

Some(x) == <<x>>

\* the keys of new_format_patterns, in the order of the dict
license_types ==
    <<"power_bi", "power_automate_rpa", "power_automate_plan", "teams_rooms",
      "teams_eea", "copilot", "ms365_eea", "power_automate_prem">>

LicenseTypeSet == {license_types[i] : i \in 1..Len(license_types)}

\* x.startswith('P.')
startswith_P(x) == x # <<>> /\ x[1] = "P."

\* x.replace('P.', '') if x.startswith('P.') else x
strip_P(x) == IF startswith_P(x) THEN SelectSeq(x, LAMBDA part : part # "P.") ELSE x

(***************************************************************************)
(* A captured numeric token: its digits n read with k decimals, and the    *)
(* separator sep found between its digit groups ("" when there is one      *)
(* group, " " or "," otherwise: the patterns allow [\s,]* there).          *)
(* to_float is float(tok.replace(' ', '').replace(',', '.')): a token with *)
(* a "," between its groups has two dots after the replacement and float() *)
(* raises ValueError.                                                      *)
(***************************************************************************)
to_float(tok) == [err |-> tok.sep = ",", val |-> FParse(tok.n, tok.k)]

\* re.findall(<layout>_format_patterns[license_type], text): the lines of
\* that layout and type, in the order of the text
findall(layout, license_type, text) ==
    SelectSeq(text.lines,
              LAMBDA l : l.layout = layout /\ l.license_type = license_type)

\* all_matches of one license type: the current layout's, then the legacy one's
\* the matches of the current layout alone (C5 tells it from all_matches)
all_matches_new_only(license_type, text) == findall("new", license_type, text)

all_matches(license_type, text) ==
    findall("new", license_type, text) \o findall("old", license_type, text)

\* x = 0; for v in s: x += v.  The builtin sum(s) is the same left-to-right
\* addition up to CPython 3.11; from 3.12 on it compensates the rounding
\* errors, which cannot change the sum of one or two floats.
RECURSIVE FSum(_)
FSum(s) == IF s = <<>> THEN FZero
           ELSE FAdd(FSum(SubSeq(s, 1, Len(s) - 1)), s[Len(s)])

\* the body of "if all_matches:", for matches whose tokens all convert
aggregate(matches) ==
    LET quantities  == [i \in 1..Len(matches) |-> to_float(matches[i].quantity).val]
        unit_prices == [i \in 1..Len(matches) |-> to_float(matches[i].unit_price).val]
        totals      == [i \in 1..Len(matches) |-> to_float(matches[i].total).val]
    IN [quantity   |-> FSum(quantities),
        unit_price |-> FDivInt(FSum(unit_prices), Len(unit_prices)),
        total      |-> FSum(totals)]

\* parse_license_info up to its return value, without the backup it saves.
\* license_info is a dict: a function whose domain is the set of its keys.
parse_license_info(text) ==
    LET matched == {t \in LicenseTypeSet : all_matches(t, text) # <<>>}
        bad(l)  == \/ to_float(l.quantity).err
                   \/ to_float(l.unit_price).err
                   \/ to_float(l.total).err
        invoice_total ==
            IF text.summa_avtal = None THEN None
            ELSE Some(to_float(text.summa_avtal[1]).val)
        license_info ==
            [key \in matched \cup {"invoice_total"} |->
                IF key = "invoice_total" THEN invoice_total
                ELSE aggregate(all_matches(key, text))]
    IN IF \E i \in 1..Len(text.lines) : bad(text.lines[i])
       THEN [raised |-> Some("ValueError: could not convert string to float"),
             value |-> None]
       ELSE IF DOMAIN license_info = {}      \* "if not license_info:"
       THEN [raised |-> Some("ValueError: Ingen licensinformation hittades i texten"),
             value |-> None]
       ELSE [raised |-> None, value |-> Some(license_info)]

(***************************************************************************)
(* The settings table and the roster.                                      *)
(***************************************************************************)
\* _load_excel_data: ProjektID loses its 'P.' prefix
\* A sheet is the sequence of its rows, each row a record with the columns
\* of the sheet as fields (KonProj for 'Kon/Proj'); the sheet without rows
\* has all the columns.
required_columns == <<"ProjektID", "KonProj", "Aktivitet", "ProjKat", "Mottagare">>

\* the exception of a read of a column the table does not have
KeyError(col) ==
    CASE col = "ProjektID" -> "KeyError: 'ProjektID'"
      [] col = "KonProj"   -> "KeyError: 'Kon/Proj'"
      [] col = "Aktivitet" -> "KeyError: 'Aktivitet'"
      [] col = "ProjKat"   -> "KeyError: 'ProjKat'"
      [] col = "Mottagare" -> "KeyError: 'Mottagare'"

missing_columns(table) ==
    IF table = <<>>
    THEN <<>>
    ELSE SelectSeq(required_columns, LAMBDA col : col \notin DOMAIN table[1])

load_project_settings(table) ==
    [i \in 1..Len(table) |-> [table[i] EXCEPT !.ProjektID = strip_P(@)]]

\* _load_excel_data, for the sheet 'Project Settings': missing columns are
\* only logged; self.project_settings['ProjektID'] raises KeyError when that
\* column is missing, and the loop that logs the projects reads
\* row['ProjektID'], row['Kon/Proj'] and row['Aktivitet'] of every row.
\* value is self.project_settings when the method returns or raises.
_load_excel_data(table) ==
    LET missing == missing_columns(table)
        logged  == SelectSeq(missing, LAMBDA col : col \in {"KonProj", "Aktivitet"})
    IN IF missing # <<>> /\ missing[1] = "ProjektID"
       THEN [raised |-> Some(KeyError("ProjektID")), value |-> table]
       ELSE IF logged # <<>>
            THEN [raised |-> Some(KeyError(logged[1])),
                  value  |-> load_project_settings(table)]
            ELSE [raised |-> None, value |-> load_project_settings(table)]

default_settings ==
    << [ProjektID |-> <<"20257601">>, KonProj |-> <<"P.", "20257601">>,
        Aktivitet |-> "050", ProjKat |-> "5420",
        Mottagare |-> "Digital Utveckling och integration"],
       [ProjektID |-> <<"20257407">>, KonProj |-> <<"P.", "20257407">>,
        Aktivitet |-> "738", ProjKat |-> "5420",
        Mottagare |-> "Digital Arbetsplats"],
       [ProjektID |-> <<"20257403">>, KonProj |-> <<"P.", "20257403">>,
        Aktivitet |-> "738", ProjKat |-> "5420",
        Mottagare |-> "Digital Arbetsplats"] >>

get_project_settings(project_id, project_settings) ==
    LET search_id == strip_P(project_id)
        project   == SelectSeq(project_settings, LAMBDA r : r.ProjektID = search_id)
        defaults  == SelectSeq(default_settings, LAMBDA r : r.ProjektID = search_id)
    IN IF project = <<>>
       THEN IF defaults # <<>>
            THEN [KonProj   |-> defaults[1].KonProj,
                  Aktivitet |-> defaults[1].Aktivitet,
                  ProjKat   |-> defaults[1].ProjKat,
                  Mottagare |-> defaults[1].Mottagare]
            ELSE [KonProj   |-> <<"P.">> \o search_id,
                  Aktivitet |-> "738",
                  ProjKat   |-> "5420",
                  Mottagare |-> "Okand mottagare"]
       ELSE [KonProj   |-> <<"P.">> \o project[1].ProjektID,
             Aktivitet |-> project[1].Aktivitet,
             ProjKat   |-> project[1].ProjKat,
             Mottagare |-> project[1].Mottagare]

\* the KeyError get_project_settings raises when the row it found lacks a
\* column it reads (project.iloc[0]['Aktivitet'], ['ProjKat'], ['Mottagare'],
\* in this order), None when it returns
get_project_settings_raised(project_id, project_settings) ==
    LET search_id == strip_P(project_id)
        project   == SelectSeq(project_settings, LAMBDA r : r.ProjektID = search_id)
        read      == SelectSeq(<<"Aktivitet", "ProjKat", "Mottagare">>,
                               LAMBDA col : col \notin DOMAIN project[1])
    IN IF project = <<>> \/ read = <<>>
       THEN None
       ELSE Some(KeyError(read[1]))

\* the ascending sequence of a finite set of integers (groupby sorts its keys)
RECURSIVE sorted(_)
sorted(S) ==
    IF S = {} THEN <<>>
    ELSE LET least == CHOOSE x \in S : \A y \in S : x <= y
         IN <<least>> \o sorted(S \ {least})

\* len(users_data[users_data['Specialhantering'] == 'Automation'])
\* a count that sees no automation people (C7 tells it from the count)
no_automation_users(users_data) == 0

num_automation_users(users_data) ==
    Len(SelectSeq(users_data, LAMBDA u : u.Specialhantering = "Automation"))

(***************************************************************************)
(* generate_accounting_rows.  A row keeps the columns that carry data; the *)
(* two columns named '' and ' ' and 'ProjAkt' are always the empty string  *)
(* and 'Godkant av' is always 'John Munthe'.  RG is None on a project row. *)
(***************************************************************************)
accounting_row(KonProj, RG, Aktivitet, ProjKat, Netto) ==
    [KonProj |-> KonProj, RG |-> RG, Aktivitet |-> Aktivitet, ProjAkt |-> "",
     ProjKat |-> ProjKat, Netto |-> Netto, GodkantAv |-> "John Munthe"]

\* 1. one row per RG of the users that are not 'Automation'
\* per-group rows that count everyone of the group (C1 tells them from
\* power_bi_rows)
power_bi_rows_all_users(license_info, users_data) ==
    IF "power_bi" \in DOMAIN license_info
    THEN LET rg_groups == sorted({users_data[i].RG : i \in 1..Len(users_data)})
             num_users(rg) == Len(SelectSeq(users_data, LAMBDA u : u.RG = rg))
         IN [i \in 1..Len(rg_groups) |->
                accounting_row(<<"5420">>, Some(rg_groups[i]), "738", "",
                    FRound2(FMulInt(num_users(rg_groups[i]),
                                    license_info["power_bi"].unit_price)))]
    ELSE <<>>

power_bi_rows(license_info, users_data) ==
    IF "power_bi" \in DOMAIN license_info
    THEN LET non_automation_users ==
                 SelectSeq(users_data, LAMBDA u : u.Specialhantering # "Automation")
             rg_groups ==
                 sorted({non_automation_users[i].RG : i \in 1..Len(non_automation_users)})
             num_users(rg) ==
                 Len(SelectSeq(non_automation_users, LAMBDA u : u.RG = rg))
         IN [i \in 1..Len(rg_groups) |->
                accounting_row(<<"5420">>, Some(rg_groups[i]), "738", "",
                    FRound2(FMulInt(num_users(rg_groups[i]),
                                    license_info["power_bi"].unit_price)))]
    ELSE <<>>

\* license_info[key]['total'] if key in license_info, else nothing is added
total_if_present(license_info, key) ==
    IF key \in DOMAIN license_info THEN license_info[key].total ELSE FZero

\* 2. automation_total
\* an automation amount without power_automate_prem (C2 tells it from
\* automation_total)
automation_total_no_prem(license_info, users_data) ==
    LET n  == Len(SelectSeq(users_data, LAMBDA u : u.Specialhantering = "Automation"))
        t0 == IF "power_bi" \in DOMAIN license_info /\ n > 0
              THEN FMulInt(n, license_info["power_bi"].unit_price)
              ELSE FZero
        t1 == FAdd(t0, total_if_present(license_info, "power_automate_rpa"))
    IN FAdd(t1, total_if_present(license_info, "power_automate_plan"))

automation_total(license_info, users_data) ==
    LET n  == num_automation_users(users_data)
        t0 == IF "power_bi" \in DOMAIN license_info /\ n > 0
              THEN FMulInt(n, license_info["power_bi"].unit_price)
              ELSE FZero
        t1 == FAdd(t0, total_if_present(license_info, "power_automate_rpa"))
        t2 == FAdd(t1, total_if_present(license_info, "power_automate_plan"))
    IN FAdd(t2, total_if_present(license_info, "power_automate_prem"))

\* 3. ms365_total
\* a workplace amount without copilot (C3 tells it from ms365_total)
ms365_total_no_copilot(license_info) ==
    FAdd(total_if_present(license_info, "teams_eea"),
         total_if_present(license_info, "ms365_eea"))

ms365_total(license_info) ==
    LET t1 == total_if_present(license_info, "teams_eea")
        t2 == FAdd(t1, total_if_present(license_info, "copilot"))
    IN FAdd(t2, total_if_present(license_info, "ms365_eea"))

project_row(project_id, project_settings, Netto) ==
    LET settings == get_project_settings(project_id, project_settings)
    IN accounting_row(settings.KonProj, None, settings.Aktivitet,
                      settings.ProjKat, Netto)

\* 4. the Teams Room row, only when the license is on the invoice
\* a meeting-room row on every invoice (C4 tells it from teams_rows)
teams_rows_always(license_info, project_settings) ==
    <<project_row(<<"20257403">>, project_settings,
                  FRound2(total_if_present(license_info, "teams_rooms")))>>

teams_rows(license_info, project_settings) ==
    IF "teams_rooms" \in DOMAIN license_info
    THEN <<project_row(<<"20257403">>, project_settings,
                       FRound2(license_info["teams_rooms"].total))>>
    ELSE <<>>

\* the KeyError generate_accounting_rows raises (it logs and raises again
\* what get_project_settings raised), None when it returns its rows
generate_accounting_rows_raised(license_info, project_settings) ==
    LET project_ids == <<<<"20257601">>, <<"20257407">>>>
                       \o (IF "teams_rooms" \in DOMAIN license_info
                           THEN <<<<"20257403">>>> ELSE <<>>)
        errors == SelectSeq([i \in 1..Len(project_ids) |->
                                get_project_settings_raised(project_ids[i],
                                                            project_settings)],
                            LAMBDA e : e # None)
    IN IF errors = <<>> THEN None ELSE errors[1]

generate_accounting_rows(license_info, users_data, project_settings) ==
    power_bi_rows(license_info, users_data)
    \o <<project_row(<<"20257601">>, project_settings,
                     FRound2(automation_total(license_info, users_data)))>>
    \o <<project_row(<<"20257407">>, project_settings,
                     FRound2(ms365_total(license_info)))>>
    \o teams_rows(license_info, project_settings)

(***************************************************************************)
(* validate_accounting_rows.  It returns nothing: what it finds goes to    *)
(* the log.  The report is the record of what it logged:                   *)
(*   power_bi_total   the sum written for the per-group rows (step 1)      *)
(*   power_bi         "sum_only": step 1 writes the sum and the rows, and   *)
(*                    no step compares them with anything                  *)
(*   teams_room       step 4: "ok", "fel", "no_row" or "skipped"           *)
(*   total            step 5: "ok", "fel" or "not_available"               *)
(*   automation, ms365, teams   step 6: "ok" or "diff" ("skipped" for      *)
(*                    teams when there is no such row)                     *)
(*   copilot, ms365_eea, prem   the checks by license: "no_row" or         *)
(*                    "skipped"                                            *)
(* next() without a default raises StopIteration when no row has the       *)
(* project of step 2 or of step 3.                                         *)
(***************************************************************************)
tolerance == FParse(2, 2)

\* abs(a - b) <= 0.02
within_tolerance(a, b) == FLe(FAbsDiff(a, b), tolerance)

rows_with(accounting_rows, KonProj) ==
    SelectSeq(accounting_rows, LAMBDA row : row.KonProj = KonProj)

sum_netto_of(accounting_rows) ==
    FSum([i \in 1..Len(accounting_rows) |-> accounting_rows[i].Netto])

\* round(lic['total'] * lic['unit_price'], 2) == round(row['Netto'], 2)
license_check(lic, row) ==
    IF FRound2(FMul(lic.total, lic.unit_price)) = FRound2(row.Netto) THEN "ok" ELSE "fel"

expected_automation(license_info, users_data) ==
    LET t1 == FAdd(total_if_present(license_info, "power_automate_rpa"),
                   total_if_present(license_info, "power_automate_plan"))
        t2 == FAdd(t1, total_if_present(license_info, "power_automate_prem"))
        n  == num_automation_users(users_data)
    IN IF n > 0 /\ "power_bi" \in DOMAIN license_info
       THEN FAdd(t2, FMulInt(n, license_info["power_bi"].unit_price))
       ELSE t2

expected_ms365(license_info) ==
    FAdd(FAdd(total_if_present(license_info, "teams_eea"),
              total_if_present(license_info, "copilot")),
         total_if_present(license_info, "ms365_eea"))

total_check(accounting_rows, license_info) ==
    IF license_info["invoice_total"] # None
    THEN IF within_tolerance(sum_netto_of(accounting_rows), license_info["invoice_total"][1])
         THEN "ok"
         ELSE "fel"
    ELSE "not_available"

\* the rows carry no 'Kommentar', so that no row is ever found for a license
row_by_comment(license_info, license_type) ==
    IF license_type \in DOMAIN license_info THEN "no_row" ELSE "skipped"

\* a validation that raises when the rows do not add up to the total of the
\* invoice (C11 tells it from validate_accounting_rows)
validate_accounting_rows_strict(accounting_rows, license_info, users_data) ==
    IF total_check(accounting_rows, license_info) = "fel"
    THEN [raised |-> Some("ValueError: validation"), report |-> None]
    ELSE [raised |-> None, report |-> Some([total |-> "ok"])]

validate_accounting_rows(accounting_rows, license_info, users_data) ==
    LET automation_rows == rows_with(accounting_rows, <<"P.", "20257601">>)
        ms365_rows      == rows_with(accounting_rows, <<"P.", "20257407">>)
        teams_rows_     == rows_with(accounting_rows, <<"P.", "20257403">>)
    IN IF automation_rows = <<>> \/ ms365_rows = <<>>
       THEN [raised |-> Some("StopIteration"), report |-> None]
       ELSE [raised |-> None,
             report |-> Some(
               [power_bi_total |-> sum_netto_of(rows_with(accounting_rows, <<"5420">>)),
                power_bi |-> "sum_only",
                teams_room |->
                    IF "teams_rooms" \in DOMAIN license_info
                    THEN IF teams_rows_ # <<>>
                         THEN license_check(license_info["teams_rooms"], teams_rows_[1])
                         ELSE "no_row"
                    ELSE "skipped",
                total |-> total_check(accounting_rows, license_info),
                automation |->
                    IF within_tolerance(automation_rows[1].Netto,
                                        expected_automation(license_info, users_data))
                    THEN "ok" ELSE "diff",
                ms365 |->
                    IF within_tolerance(ms365_rows[1].Netto, expected_ms365(license_info))
                    THEN "ok" ELSE "diff",
                teams |->
                    IF teams_rows_ # <<>>
                    THEN IF within_tolerance(teams_rows_[1].Netto,
                                             total_if_present(license_info, "teams_rooms"))
                         THEN "ok" ELSE "diff"
                    ELSE "skipped",
                copilot   |-> row_by_comment(license_info, "copilot"),
                ms365_eea |-> row_by_comment(license_info, "ms365_eea"),
                prem      |-> row_by_comment(license_info, "power_automate_prem")])]

(***************************************************************************)
(* generate_invoice_comment.  The comment is the list of its parts: the    *)
(* heading and one part for each person without the 'Automation' tag, by   *)
(* RG and name, then one part for each key of license_by_receiver, a dict: *)
(* assigning to a key it has replaces the value and keeps the place.       *)
(***************************************************************************)
Names == <<"Anna", "Bo", "Cia", "Dan", "Eva", "Finn">>

\* the place of a name in the order of strings
name_rank(Namn) == CHOOSE i \in 1..Len(Names) : Names[i] = Namn

sort_key_le(u, v) ==
    u.RG < v.RG \/ (u.RG = v.RG /\ name_rank(u.Namn) <= name_rank(v.Namn))

\* a stable sort: u goes behind every row that is not behind it
insert_sorted(u, s) ==
    LET before == SelectSeq(s, LAMBDA v : sort_key_le(v, u))
        after  == SelectSeq(s, LAMBDA v : ~sort_key_le(v, u))
    IN before \o <<u>> \o after

RECURSIVE sort_values(_)
sort_values(s) ==
    IF s = <<>> THEN <<>>
    ELSE insert_sorted(s[Len(s)], sort_values(SubSeq(s, 1, Len(s) - 1)))

\* a dictionary whose assignment to an existing key moves the key to the end
\* (C18 tells it from dict_set)
dict_set_moving(d, key, value) ==
    SelectSeq(d, LAMBDA e : e.key # key) \o <<[key |-> key, value |-> value]>>

\* d[key] = value
dict_set(d, key, value) ==
    IF \E i \in 1..Len(d) : d[i].key = key
    THEN [i \in 1..Len(d) |-> IF d[i].key = key THEN [key |-> key, value |-> value] ELSE d[i]]
    ELSE Append(d, [key |-> key, value |-> value])

dict_has(d, key) == \E i \in 1..Len(d) : d[i].key = key

dict_get(d, key) == d[CHOOSE i \in 1..Len(d) : d[i].key = key].value

\* the 'Mottagare' of the first settings row of the project, or the standard
receiver_of(project_settings, project_id, standard) ==
    LET project == SelectSeq(project_settings, LAMBDA r : r.ProjektID = project_id)
    IN IF project # <<>> /\ "Mottagare" \in DOMAIN project[1]
       THEN project[1].Mottagare
       ELSE standard

names_if_present(license_info, keys, names) ==
    LET idx == SelectSeq([i \in 1..Len(keys) |-> i],
                         LAMBDA i : keys[i] \in DOMAIN license_info)
    IN [j \in 1..Len(idx) |-> names[idx[j]]]

generate_invoice_comment(license_info, users_data, project_settings) ==
    LET pbi_users == sort_values(SelectSeq(users_data,
                                           LAMBDA u : u.Specialhantering # "Automation"))
        user_parts ==
            IF pbi_users # <<>>
            THEN <<[part |-> "Power BI Pro-licenser"]>>
                 \o [i \in 1..Len(pbi_users) |->
                        [part |-> "user", Namn |-> pbi_users[i].Namn, RG |-> pbi_users[i].RG,
                         Kostnadsstalle |-> pbi_users[i].Kostnadsstalle]]
            ELSE <<>>
        automation_licenses ==
            names_if_present(license_info,
                <<"power_automate_rpa", "power_automate_plan", "power_automate_prem">>,
                <<"Power Automate unattended RPA add-on",
                  "Power Automate with att RPA plan", "Power Automate prem">>)
            \o (IF num_automation_users(users_data) > 0
                THEN <<"Power BI Pro (Mattias)">> ELSE <<>>)
        d1 == IF automation_licenses # <<>>
              THEN dict_set(<<>>,
                            receiver_of(project_settings, <<"20257601">>,
                                        "Digital Utveckling och integration"),
                            automation_licenses)
              ELSE <<>>
        ms365_licenses ==
            names_if_present(license_info, <<"teams_eea", "copilot", "ms365_eea">>,
                <<"MS Teams EEA", "MS Copilot for MS 365", "MS 365 E3 EEA (no Teams)">>)
        d2 == IF ms365_licenses # <<>>
              THEN dict_set(d1, receiver_of(project_settings, <<"20257407">>,
                                            "Digital Arbetsplats"),
                            ms365_licenses)
              ELSE d1
        teams_receiver == receiver_of(project_settings, <<"20257403">>, "Digital Arbetsplats")
        d3 == IF "teams_rooms" \in DOMAIN license_info
              THEN IF dict_has(d2, teams_receiver)
                   THEN dict_set(d2, teams_receiver,
                                 Append(dict_get(d2, teams_receiver), "MS Teams Rooms Pro"))
                   ELSE dict_set(d2, teams_receiver, <<"MS Teams Rooms Pro">>)
              ELSE d2
    IN user_parts
       \o [i \in 1..Len(d3) |->
              [part |-> "receiver", receiver |-> d3[i].key, licenses |-> d3[i].value]]

(***************************************************************************)
(* State.                                                                  *)
(*   pc                where the run is                                    *)
(*   users_data        self.users_data: the roster, one record per row     *)
(*   project_settings  self.project_settings: the settings table           *)
(*   ocr_text          the text (None before it is extracted)              *)
(*   license_info      the dict parse_license_info returned (or None)      *)
(*   accounting_rows   the list generate_accounting_rows returned (or None)*)
(*   report            what validate_accounting_rows logged (or None)      *)
(*   files             the writes to the output directory, oldest first    *)
(*   clock             the second datetime.now() reads                     *)
(*   timestamp         the second process_invoice names its files by       *)
(*   comment           the comment process_invoice logged (or None)        *)
(*   raised            the exception that ended the run (or None)          *)
(*   settings          the call of get_project_settings and what it        *)
(*                     returned (None before the call)                     *)
(***************************************************************************)
VARIABLES pc, users_data, project_settings, ocr_text, license_info,
          accounting_rows, report, files, clock, timestamp, comment, raised,
          settings

vars == <<pc, users_data, project_settings, ocr_text, license_info,
          accounting_rows, report, files, clock, timestamp, comment, raised,
          settings>>

(***************************************************************************)
(* Inputs.                                                                 *)
(***************************************************************************)
\* the largest roster
MaxPeople == 2

\* the most license types billed on one invoice of the allocation runs
MaxTypes == 3

\* the seconds a run may take
MaxClock == 1

token(n, k) == [n |-> n, k |-> k, sep |-> ""]

line(layout, license_type, quantity, unit_price, total) ==
    [layout |-> layout, license_type |-> license_type, quantity |-> quantity,
     unit_price |-> unit_price, total |-> total]

\* A person of the roster is of one of three kinds.
person(kind, Namn) ==
    CASE kind = 1 -> [Namn |-> Namn, RG |-> 10, Kostnadsstalle |-> "4100",
                      Specialhantering |-> ""]
      [] kind = 2 -> [Namn |-> Namn, RG |-> 20, Kostnadsstalle |-> "4200",
                      Specialhantering |-> ""]
      [] kind = 3 -> [Namn |-> Namn, RG |-> 10, Kostnadsstalle |-> "4100",
                      Specialhantering |-> "Automation"]

\* The rosters of up to n people; the rows are listed by kind, since
\* neither parse_license_info nor generate_accounting_rows depends on the
\* order of the rows.
Rosters(n) ==
    UNION {{[i \in 1..len |-> person(kinds[i], Names[i])] :
                kinds \in {f \in [1..len -> 1..3] :
                              \A i \in 1..(len - 1) : f[i] <= f[i + 1]}} :
           len \in 0..n}

\* A settings table as read from the sheet: the automation project under its
\* prefixed name, the Teams Room project missing.
SampleSettings ==
    << [ProjektID |-> <<"P.", "20257601">>, KonProj |-> <<"P.", "20257601">>,
        Aktivitet |-> "051", ProjKat |-> "5421", Mottagare |-> "Team Automation"],
       [ProjektID |-> <<"20257407">>, KonProj |-> <<"P.", "20257407">>,
        Aktivitet |-> "739", ProjKat |-> "5420", Mottagare |-> "Team Arbetsplats"] >>

(***************************************************************************)
(* The invoices of the allocation runs: for every license type one of a    *)
(* few readings of its billing lines, chosen independently.                *)
(*   power_bi     a cycle line at 150,00 and a correction line at 150,01   *)
(*   teams_rooms  an amount in whole ore, one with a third decimal, or two *)
(*                lines                                                    *)
(*   ms365_eea    a unit price with four decimals, a total with three      *)
(***************************************************************************)
AllocLines(license_type, choice) ==
    CASE license_type = "power_bi" ->
           << <<>>,
              <<line("new", "power_bi", token(500, 2), token(15000, 2), token(75000, 2))>>,
              <<line("new", "power_bi", token(500, 2), token(15000, 2), token(75000, 2)),
                line("old", "power_bi", token(100, 2), token(15001, 2), token(15001, 2))>>
           >>[choice + 1]
      [] license_type = "power_automate_rpa" ->
           << <<>>,
              <<line("new", "power_automate_rpa", token(100, 2), token(40000, 2), token(40000, 2))>>
           >>[choice + 1]
      [] license_type = "power_automate_plan" ->
           << <<>>,
              <<line("old", "power_automate_plan", token(200, 2), token(9925, 2), token(19850, 2))>>
           >>[choice + 1]
      [] license_type = "power_automate_prem" ->
           << <<>>,
              <<line("new", "power_automate_prem", token(300, 2), token(1505, 2), token(4515, 2))>>
           >>[choice + 1]
      [] license_type = "teams_eea" ->
           << <<>>,
              <<line("old", "teams_eea", token(1000, 2), token(2550, 2), token(25500, 2))>>
           >>[choice + 1]
      [] license_type = "copilot" ->
           << <<>>,
              <<line("new", "copilot", token(400, 2), token(30000, 2),
                     [n |-> 120000, k |-> 2, sep |-> " "])>>
           >>[choice + 1]
      [] license_type = "ms365_eea" ->
           << <<>>,
              <<line("new", "ms365_eea", token(200, 2), token(3500625, 4), token(700125, 3))>>
           >>[choice + 1]
      [] license_type = "teams_rooms" ->
           << <<>>,
              <<line("new", "teams_rooms", token(100, 2), token(40000, 2), token(40000, 2))>>,
              <<line("new", "teams_rooms", token(100, 2), token(400125, 3), token(400125, 3))>>,
              <<line("new", "teams_rooms", token(100, 2), token(10, 2), token(10, 2)),
                line("old", "teams_rooms", token(100, 2), token(20, 2), token(20, 2))>>
           >>[choice + 1]

AllocChoices(license_type) ==
    CASE license_type = "power_bi" -> 0..2
      [] license_type = "teams_rooms" -> 0..3
      [] OTHER -> 0..1

RECURSIVE concat(_)
concat(seqs) == IF seqs = <<>> THEN <<>> ELSE Head(seqs) \o concat(Tail(seqs))

AllocTexts ==
    {[lines |-> concat([i \in 1..Len(license_types) |->
                           AllocLines(license_types[i], choice[license_types[i]])]),
      summa_avtal |-> None] :
        choice \in {c \in [LicenseTypeSet -> 0..3] :
                       /\ \A t \in LicenseTypeSet : c[t] \in AllocChoices(t)
                       /\ Cardinality({t \in LicenseTypeSet : c[t] # 0}) <= MaxTypes}}

(***************************************************************************)
(* The inputs of the validation runs.  The invoices have amounts of 1,00   *)
(* and 100,00, with or without the total of the invoice; the rows are any  *)
(* rows a caller may pass: their Netto is given in thousandths, from 0,000 *)
(* over 0,020 and 0,021 to 100,020, and the row of a project may be        *)
(* missing.                                                                *)
(***************************************************************************)
ValidateTexts ==
    {[lines |-> pbi \o rpa \o tr \o eea, summa_avtal |-> summa] :
        pbi \in {<<>>, <<line("new", "power_bi", token(100, 2), token(100, 2), token(100, 2))>>},
        rpa \in {<<>>,
                 <<line("new", "power_automate_rpa", token(100, 2), token(100, 2), token(100, 2))>>,
                 <<line("old", "power_automate_rpa", token(100, 2), token(10000, 2), token(10000, 2))>>},
        tr  \in {<<>>, <<line("new", "teams_rooms", token(200, 2), token(50, 2), token(100, 2))>>},
        eea \in {<<>>, <<line("old", "teams_eea", token(100, 2), token(100, 2), token(100, 2))>>},
        summa \in {None, Some(token(200, 2))}}

ValidateRosters == {<<>>, <<person(3, "Anna")>>}

netto_row(KonProj, RG, thousandths) ==
    accounting_row(KonProj, RG, "738", "5420", FParse(thousandths, 3))

AutomationNetto == {0, 20, 21, 1000, 1020, 100020}

WorkplaceNetto == {0, 1000}

TeamsNetto == {1000, 1020}

NettoThousandths == AutomationNetto \cup WorkplaceNetto \cup TeamsNetto

ValidateRows ==
    LET group      == {<<>>, <<netto_row(<<"5420">>, Some(10), 1000)>>}
        automation == {<<netto_row(<<"P.", "20257601">>, None, c)>> : c \in AutomationNetto}
        workplace  == {<<netto_row(<<"P.", "20257407">>, None, c)>> : c \in WorkplaceNetto}
        teams      == {<<>>} \cup
                      {<<netto_row(<<"P.", "20257403">>, None, c)>> : c \in TeamsNetto}
    IN {g \o a \o w \o t : g \in group, a \in automation, w \in workplace, t \in teams}
       \cup {<<netto_row(<<"P.", "20257407">>, None, 1000)>>,
             <<netto_row(<<"P.", "20257601">>, None, 1000)>>}

(***************************************************************************)
(* The inputs of the runs of process_invoice: a text without any billing   *)
(* line, with and without the total of the invoice, an invoice of one      *)
(* line, one of three, and one with a unit price float() rejects.          *)
(***************************************************************************)
RunTexts ==
    { [lines |-> <<>>, summa_avtal |-> None],
      [lines |-> <<>>, summa_avtal |-> Some(token(200, 2))],
      [lines |-> <<line("new", "power_automate_rpa", token(100, 2), token(100, 2), token(100, 2))>>,
       summa_avtal |-> Some(token(100, 2))],
      [lines |-> <<line("new", "power_bi", token(200, 2), token(15000, 2), token(30000, 2)),
                   line("new", "teams_rooms", token(100, 2), token(400125, 3), token(400125, 3)),
                   line("old", "teams_eea", token(100, 2), token(100, 2), token(100, 2))>>,
       summa_avtal |-> None],
      [lines |-> <<line("new", "copilot", token(100, 2), token(100, 2), token(100, 2)),
                   line("new", "ms365_eea", token(100, 2), token(100, 2), token(100, 2)),
                   line("new", "power_automate_prem", token(100, 2), token(100, 2),
                        token(100, 2))>>,
       summa_avtal |-> Some(token(300, 2))],
      [lines |-> <<line("old", "copilot", token(100, 2),
                        [n |-> 123456, k |-> 2, sep |-> ","], token(123456, 2))>>,
       summa_avtal |-> None] }

RunRosters == {<<>>, <<person(1, "Bo"), person(3, "Anna")>>}

RunSettings == {<<>>, SampleSettings}

(***************************************************************************)
(* The calls.  save_backup writes one file, named by its kind and by the   *)
(* second read from the clock, and may fail (OSError).                     *)
(***************************************************************************)
save_backup(kind, stamp, data) == [name |-> <<kind, stamp>>, data |-> data]

\* license_info = self.parse_license_info(text), called at the second now
Parse(now, to) ==
    /\ pc = "parse_license_info"
    /\ clock' = now
    /\ \E r \in {parse_license_info(ocr_text[1])} :
          IF r.raised # None
          THEN /\ raised' = r.raised
               /\ pc' = "raised"
               /\ UNCHANGED <<license_info, files>>
          ELSE \/ /\ files' = Append(files, save_backup("parsed_licenses", now,
                                                        "{'license_info': license_info}"))
                  /\ license_info' = r.value
                  /\ pc' = to
                  /\ UNCHANGED raised
               \/ /\ raised' = Some("OSError")
                  /\ pc' = "raised"
                  /\ UNCHANGED <<license_info, files>>
    /\ UNCHANGED <<settings, users_data, project_settings, ocr_text, accounting_rows,
                   report, timestamp, comment>>

\* accounting_rows = self.generate_accounting_rows(license_info)
Generate(from, to) ==
    /\ pc = from
    /\ \E e \in {generate_accounting_rows_raised(license_info[1], project_settings)} :
          IF e # None
          THEN /\ raised' = e
               /\ pc' = "raised"
               /\ UNCHANGED accounting_rows
          ELSE /\ accounting_rows' =
                      Some(generate_accounting_rows(license_info[1], users_data,
                                                    project_settings))
               /\ pc' = to
               /\ UNCHANGED raised
    /\ UNCHANGED <<settings, users_data, project_settings, ocr_text, license_info,
                   report, files, clock, timestamp, comment>>

\* self.validate_accounting_rows(rows, license_info)
Validate(from, to, rows) ==
    /\ pc = from
    /\ \E r \in {validate_accounting_rows(rows, license_info[1], users_data)} :
          /\ accounting_rows' = Some(rows)
          /\ report' = r.report
          /\ raised' = r.raised
          /\ pc' = IF r.raised = None THEN to ELSE "raised"
    /\ UNCHANGED <<settings, users_data, project_settings, ocr_text, license_info,
                   files, clock, timestamp, comment>>

CallParse == Parse(clock, "parsed")

CallGenerate == Generate("parsed", "generated")

\* the rows are any rows of the caller
CallValidate == \E rows \in ValidateRows : Validate("parsed", "validated", rows)

InitObject ==
    /\ license_info = None
    /\ accounting_rows = None
    /\ report = None
    /\ files = <<>>
    /\ clock = 0
    /\ timestamp = None
    /\ comment = None
    /\ raised = None
    /\ settings = None

(***************************************************************************)
(* process_invoice, one action for each of its calls.  Whatever a call     *)
(* raises ends the run: process_invoice logs it and raises it again.       *)
(***************************************************************************)
\* ocr_text = self.extract_text_from_pdf(pdf_path): any text, or an error of
\* the PDF conversion or of the OCR
ExtractText ==
    /\ pc = "extract_text_from_pdf"
    /\ \/ \E text \in RunTexts :
              /\ ocr_text' = Some(text)
              /\ pc' = "save_backup_ocr"
              /\ UNCHANGED raised
       \/ /\ raised' = Some("Exception: extract_text_from_pdf")
          /\ pc' = "raised"
          /\ UNCHANGED ocr_text
    /\ UNCHANGED <<settings, users_data, project_settings, license_info, accounting_rows,
                   report, files, clock, timestamp, comment>>

\* self.save_backup(data, f"{kind}_{timestamp}.json")
SaveBackup(from, to, kind, data) ==
    /\ pc = from
    /\ \/ /\ files' = Append(files, save_backup(kind, timestamp[1], data))
          /\ pc' = to
          /\ UNCHANGED raised
       \/ /\ raised' = Some("OSError")
          /\ pc' = "raised"
          /\ UNCHANGED files
    /\ UNCHANGED <<settings, users_data, project_settings, ocr_text, license_info,
                   accounting_rows, report, clock, timestamp, comment>>

\* timestamp = datetime.now().strftime(...); self.save_backup(ocr_text, ...)
SaveOcrBackup ==
    /\ pc = "save_backup_ocr"
    /\ \E now \in clock..MaxClock :
          /\ clock' = now
          /\ timestamp' = Some(now)
          /\ \/ /\ files' = Append(files, save_backup("ocr_backup", now, "ocr_text"))
                /\ pc' = "parse_license_info"
                /\ UNCHANGED raised
             \/ /\ raised' = Some("OSError")
                /\ pc' = "raised"
                /\ UNCHANGED files
    /\ UNCHANGED <<settings, users_data, project_settings, ocr_text, license_info,
                   accounting_rows, report, comment>>

StepParse == \E now \in clock..MaxClock : Parse(now, "save_backup_parsed")

SaveParsedBackup ==
    SaveBackup("save_backup_parsed", "generate_accounting_rows",
               "parsed_licenses", "license_info")

StepGenerate == Generate("generate_accounting_rows", "save_backup_rows")

SaveRowsBackup ==
    SaveBackup("save_backup_rows", "validate_accounting_rows",
               "accounting_rows", "accounting_rows")

StepValidate ==
    /\ accounting_rows # None
    /\ Validate("validate_accounting_rows", "generate_invoice_comment", accounting_rows[1])

\* comment = self.generate_invoice_comment(license_info, accounting_rows)
Comment(from, to) ==
    /\ pc = from
    /\ comment' = Some(generate_invoice_comment(license_info[1], users_data,
                                                project_settings))
    /\ pc' = to
    /\ UNCHANGED <<settings, users_data, project_settings, ocr_text, license_info,
                   accounting_rows, report, files, clock, timestamp, raised>>

StepComment == Comment("generate_invoice_comment", "save_to_excel")

\* self.save_to_excel(accounting_rows, f"output/kontering_{timestamp}.xlsx")
SaveToExcel ==
    /\ pc = "save_to_excel"
    /\ \/ /\ files' = Append(files, [name |-> <<"kontering", timestamp[1]>>,
                                     data |-> "accounting_rows"])
          /\ pc' = "done"
          /\ UNCHANGED raised
       \/ /\ raised' = Some("OSError")
          /\ pc' = "raised"
          /\ UNCHANGED files
    /\ UNCHANGED <<settings, users_data, project_settings, ocr_text, license_info,
                   accounting_rows, report, clock, timestamp, comment>>

\* an InvoiceHelper with its tables read, about to process an invoice
Init ==
    /\ pc = "extract_text_from_pdf"
    /\ users_data \in RunRosters
    /\ project_settings \in {load_project_settings(t) : t \in RunSettings}
    /\ ocr_text = None
    /\ InitObject

Next ==
    \/ ExtractText
    \/ SaveOcrBackup
    \/ StepParse
    \/ SaveParsedBackup
    \/ StepGenerate
    \/ SaveRowsBackup
    \/ StepValidate
    \/ StepComment
    \/ SaveToExcel

Spec == Init /\ [][Next]_vars

\* process_invoice is between two of its calls
Running == pc \notin {"done", "raised"}

\* process_invoice runs its calls one after the other, and each of them
\* returns or raises: a run that can take a step takes it.  This is
\* WF_vars(Next) written out: a step of Next is possible exactly while the run
\* is Running (every call of the pipeline either returns or raises), and
\* every step of Next moves pc.
FairSpec == Spec /\ ([]<>(~Running) \/ []<><<pc' # pc>>_vars)

\* parse_license_info, then generate_accounting_rows, on any invoice and roster
InitAlloc ==
    /\ pc = "parse_license_info"
    /\ users_data \in Rosters(MaxPeople)
    /\ project_settings = load_project_settings(SampleSettings)
    /\ ocr_text \in {Some(t) : t \in AllocTexts}
    /\ InitObject

NextAlloc == CallParse \/ CallGenerate

SpecAlloc == InitAlloc /\ [][NextAlloc]_vars

\* parse_license_info, then validate_accounting_rows on any rows
InitValidate ==
    /\ pc = "parse_license_info"
    /\ users_data \in ValidateRosters
    /\ project_settings = load_project_settings(SampleSettings)
    /\ ocr_text \in {Some(t) : t \in ValidateTexts}
    /\ InitObject

NextValidate == CallParse \/ CallValidate

SpecValidate == InitValidate /\ [][NextValidate]_vars

(***************************************************************************)
(* The settings table.  InvoiceHelper() reads the workbook, and the caller *)
(* then looks a project up, or has an invoice text parsed, allocated and   *)
(* commented.  The sheets are tables with all their columns (two or three  *)
(* projects of one recipient, the rows in any order, two rows of one       *)
(* project, a project the program does not know) and the same tables       *)
(* without one or two of the required columns.                             *)
(***************************************************************************)
settings_row(ProjektID, Aktivitet, Mottagare) ==
    [ProjektID |-> ProjektID, KonProj |-> <<"P.">> \o strip_P(ProjektID),
     Aktivitet |-> Aktivitet, ProjKat |-> "5421", Mottagare |-> Mottagare]

\* the sheet without some of its columns
drop_columns(table, cols) ==
    [i \in 1..Len(table) |-> [c \in DOMAIN table[i] \ cols |-> table[i][c]]]

SharedTwo ==
    << settings_row(<<"20257601">>, "051", "Team IT"),
       settings_row(<<"20257407">>, "739", "Team IT"),
       settings_row(<<"20257403">>, "740", "Team Rum") >>

SharedAll ==
    << settings_row(<<"20257601">>, "051", "Team IT"),
       settings_row(<<"P.", "20257407">>, "739", "Team IT"),
       settings_row(<<"20257403">>, "740", "Team IT") >>

SharedFirstAndLast ==
    << settings_row(<<"20257601">>, "051", "Team IT"),
       settings_row(<<"20257407">>, "739", "Team Arbetsplats"),
       settings_row(<<"20257403">>, "740", "Team IT") >>

Reversed ==
    << settings_row(<<"20257403">>, "740", "Alfa"),
       settings_row(<<"20257407">>, "739", "Beta"),
       settings_row(<<"20257601">>, "051", "Zeta") >>

OtherProject ==
    << settings_row(<<"P.", "99">>, "100", "Team Other"),
       settings_row(<<"99">>, "101", "Team Second") >>

FullSheets ==
    {<<>>, SampleSettings, SharedTwo, SharedAll, SharedFirstAndLast, Reversed,
     OtherProject}

DroppedColumns ==
    {{"ProjektID"}, {"KonProj"}, {"Aktivitet"}, {"ProjKat"}, {"Mottagare"},
     {"ProjKat", "Mottagare"}}

Sheets ==
    FullSheets
    \cup {drop_columns(table, cols) : table \in {Reversed, OtherProject},
                                      cols \in DroppedColumns}

ProjectIds ==
    {<<"20257601">>, <<"P.", "20257601">>, <<"20257407">>, <<"P.", "20257403">>,
     <<"99">>, <<"P.", "99">>, <<"88">>}

SettingsRosters == {<<>>, <<person(3, "Anna")>>}

\* an invoice with one line for each of the given license types
settings_text(types) ==
    [lines |-> [i \in 1..Len(types) |->
                   line("new", types[i], token(100, 2), token(100, 2), token(100, 2))],
     summa_avtal |-> None]

SettingsTexts ==
    {settings_text(types) : types \in
        {<<>>,
         <<"power_automate_rpa">>, <<"copilot">>, <<"teams_rooms">>,
         <<"power_automate_rpa", "copilot">>,
         <<"power_automate_rpa", "teams_rooms">>,
         <<"copilot", "teams_rooms">>,
         <<"power_automate_rpa", "copilot", "teams_rooms">>,
         <<"power_automate_rpa", "power_automate_prem", "teams_eea", "copilot",
           "teams_rooms">>}}

\* InvoiceHelper(): __init__ calls _load_excel_data, which reads the two
\* sheets of the workbook; what it raises ends the construction
LoadExcelData ==
    /\ pc = "_load_excel_data"
    /\ \E roster \in SettingsRosters, table \in Sheets :
          \E r \in {_load_excel_data(table)} :
              /\ users_data' = roster
              /\ project_settings' = r.value
              /\ raised' = r.raised
              /\ pc' = IF r.raised = None THEN "parse_license_info" ELSE "raised"
    /\ UNCHANGED <<settings, ocr_text, license_info, accounting_rows, report,
                   files, clock, timestamp, comment>>

\* self.get_project_settings(project_id), called on the constructed object
CallGetProjectSettings ==
    /\ pc = "parse_license_info"
    /\ \E project_id \in ProjectIds :
          \E e \in {get_project_settings_raised(project_id, project_settings)} :
              /\ settings' =
                     Some([project_id |-> project_id,
                           returned   |-> IF e = None
                                          THEN Some(get_project_settings(project_id,
                                                                         project_settings))
                                          ELSE None])
              /\ raised' = e
    /\ pc' = "get_project_settings"
    /\ UNCHANGED <<users_data, project_settings, ocr_text, license_info,
                   accounting_rows, report, files, clock, timestamp, comment>>

CallComment == Comment("generated", "commented")

InitSettings ==
    /\ pc = "_load_excel_data"
    /\ users_data = None
    /\ project_settings = None
    /\ ocr_text \in {Some(t) : t \in SettingsTexts}
    /\ InitObject

NextSettings ==
    \/ LoadExcelData
    \/ CallGetProjectSettings
    \/ CallParse
    \/ CallGenerate
    \/ CallComment

SpecSettings == InitSettings /\ [][NextSettings]_vars

(***************************************************************************)
(* Properties of parse_license_info and generate_accounting_rows.          *)
(* Amounts are compared as the floats they are.                            *)
(***************************************************************************)
the_text == ocr_text[1]

the_rows == accounting_rows[1]

present(license_type) == license_type \in DOMAIN license_info[1]

rows_of(KonProj) == SelectSeq(the_rows, LAMBDA row : row.KonProj = KonProj)

\* the matches of a license type: those of the current layout, then those
\* of the legacy layout
matches_of(license_type) ==
    SelectSeq(the_text.lines,
              LAMBDA l : l.license_type = license_type /\ l.layout = "new")
    \o SelectSeq(the_text.lines,
                 LAMBDA l : l.license_type = license_type /\ l.layout = "old")

float_of(tok) == FParse(tok.n, tok.k)

Front(s) == SubSeq(s, 1, Len(s) - 1)

Last(s) == s[Len(s)]

RECURSIVE sum_floats(_)
sum_floats(s) == IF s = <<>> THEN FZero ELSE FAdd(sum_floats(Front(s)), Last(s))

field_sum(ms, field) == sum_floats([i \in 1..Len(ms) |-> float_of(ms[i][field])])

\* C5: after parse_license_info, a license type is in the result exactly
\* when a line of either layout matched it, and its aggregate has the sum of
\* the matched totals, the sum of the matched quantities and the arithmetic
\* mean of the matched unit prices.
C5_MergedAggregate ==
    license_info # None =>
        \A t \in LicenseTypeSet :
            /\ present(t) <=> matches_of(t) # <<>>
            /\ present(t) =>
                 /\ license_info[1][t].total = field_sum(matches_of(t), "total")
                 /\ license_info[1][t].quantity = field_sum(matches_of(t), "quantity")
                 /\ license_info[1][t].unit_price =
                        FDivInt(field_sum(matches_of(t), "unit_price"),
                                Len(matches_of(t)))

\* a type matched by both layouts, whose mean unit price is not
\* total/quantity (six licenses, 150,005 on average, 900,01 in all)
C5_Witness ==
    /\ license_info # None
    /\ present("power_bi")
    /\ Len(matches_of("power_bi")) = 2
    /\ license_info[1]["power_bi"].total = FParse(90001, 2)
    /\ license_info[1]["power_bi"].unit_price = FDivInt(FParse(30001, 2), 2)
    /\ FMulInt(6, license_info[1]["power_bi"].unit_price)
           # license_info[1]["power_bi"].total

generated == pc = "generated"

people(rg, tagged) ==
    Cardinality({i \in 1..Len(users_data) :
                    /\ users_data[i].RG = rg
                    /\ (users_data[i].Specialhantering = "Automation") = tagged})

tagged_people ==
    Cardinality({i \in 1..Len(users_data) :
                    users_data[i].Specialhantering = "Automation"})

groups == {users_data[i].RG : i \in {j \in 1..Len(users_data) :
                                        users_data[j].Specialhantering # "Automation"}}

group_rows == rows_of(<<"5420">>)

total_or_zero(license_type) ==
    IF present(license_type) THEN license_info[1][license_type].total ELSE FZero

unit_price_of_power_bi == license_info[1]["power_bi"].unit_price

\* the shape of the per-group rows, whatever their amounts
group_rows_shape ==
    IF present("power_bi")
    THEN /\ {group_rows[i].RG : i \in 1..Len(group_rows)} = {Some(rg) : rg \in groups}
         /\ Len(group_rows) = Cardinality(groups)
    ELSE /\ group_rows = <<>>
         /\ Len(rows_of(<<"P.", "20257601">>)) = 1
         /\ Len(rows_of(<<"P.", "20257407">>)) = 1
         /\ Len(rows_of(<<"P.", "20257403">>)) = IF present("teams_rooms") THEN 1 ELSE 0

\* C1 (amended): the per-group rows are one per region group of the people
\* not tagged 'Automation' when power_bi is present, each with Netto =
\* round(people of the group x power_bi unit_price, 2), and none when
\* power_bi is absent, the other rows being produced all the same.
C1_GroupRows ==
    generated =>
        /\ group_rows_shape
        /\ \A i \in 1..Len(group_rows) :
               group_rows[i].Netto =
                   FRound2(FMulInt(people(group_rows[i].RG[1], FALSE),
                                   unit_price_of_power_bi))

\* C1 as stated: Netto = people of the group x power_bi unit_price
C1_AsStated ==
    generated =>
        /\ group_rows_shape
        /\ \A i \in 1..Len(group_rows) :
               group_rows[i].Netto =
                   FMulInt(people(group_rows[i].RG[1], FALSE), unit_price_of_power_bi)

\* two untagged people of group 10 at 150,00 make a row of 300,00
C1_Witness ==
    /\ generated
    /\ present("power_bi")
    /\ people(10, FALSE) = 2
    /\ \E i \in 1..Len(group_rows) :
           group_rows[i].RG = Some(10) /\ group_rows[i].Netto = FParse(30000, 2)

automation_amount ==
    LET per_person == IF present("power_bi")
                      THEN FMulInt(tagged_people, unit_price_of_power_bi)
                      ELSE FZero
    IN FAdd(FAdd(FAdd(per_person, total_or_zero("power_automate_rpa")),
                 total_or_zero("power_automate_plan")),
            total_or_zero("power_automate_prem"))

\* C2 (amended): there is exactly one row of project 20257601, and its Netto
\* is round(tagged people x power_bi unit_price (if power_bi is present) +
\* the totals of the present ones of power_automate_rpa, _plan and _prem, 2).
C2_AutomationRow ==
    generated =>
        /\ Len(rows_of(<<"P.", "20257601">>)) = 1
        /\ rows_of(<<"P.", "20257601">>)[1].Netto = FRound2(automation_amount)

\* C2 as stated: the Netto is that sum itself
C2_AsStated ==
    generated =>
        /\ Len(rows_of(<<"P.", "20257601">>)) = 1
        /\ rows_of(<<"P.", "20257601">>)[1].Netto = automation_amount

\* one tagged person at 150,00, robots for 400,00 and premium for 45,15
C2_Witness ==
    /\ generated
    /\ tagged_people = 1
    /\ present("power_bi") /\ present("power_automate_rpa")
    /\ present("power_automate_prem")
    /\ rows_of(<<"P.", "20257601">>)[1].Netto = FParse(59515, 2)

\* an invoice without any automation amount still has its row, of 0
C2_WitnessZero ==
    /\ generated
    /\ ~present("power_bi")
    /\ rows_of(<<"P.", "20257601">>)[1].Netto = FZero

workplace_amount ==
    FAdd(FAdd(total_or_zero("teams_eea"), total_or_zero("copilot")),
         total_or_zero("ms365_eea"))

\* C3 (amended): there is exactly one row of project 20257407, and its Netto
\* is round(the totals of the present ones of teams_eea, copilot and
\* ms365_eea, 2), which is 0 when none is present.
C3_WorkplaceRow ==
    generated =>
        /\ Len(rows_of(<<"P.", "20257407">>)) = 1
        /\ rows_of(<<"P.", "20257407">>)[1].Netto = FRound2(workplace_amount)

\* C3 as stated: the Netto is that sum itself
C3_AsStated ==
    generated =>
        /\ Len(rows_of(<<"P.", "20257407">>)) = 1
        /\ rows_of(<<"P.", "20257407">>)[1].Netto = workplace_amount

\* 255,00 + 1 200,00 + 700,125 is booked as 2155,12
C3_Witness ==
    /\ generated
    /\ present("teams_eea") /\ present("copilot") /\ present("ms365_eea")
    /\ rows_of(<<"P.", "20257407">>)[1].Netto = FParse(215512, 2)

\* C4 (amended): there is a row of project 20257403 exactly when teams_rooms
\* is present; there is one such row then, with Netto =
\* round(teams_rooms total, 2).
C4_MeetingRoomRow ==
    generated =>
        IF present("teams_rooms")
        THEN /\ Len(rows_of(<<"P.", "20257403">>)) = 1
             /\ rows_of(<<"P.", "20257403">>)[1].Netto =
                    FRound2(license_info[1]["teams_rooms"].total)
        ELSE rows_of(<<"P.", "20257403">>) = <<>>

\* C4 as stated: the Netto is the teams_rooms total
C4_AsStated ==
    generated =>
        IF present("teams_rooms")
        THEN /\ Len(rows_of(<<"P.", "20257403">>)) = 1
             /\ rows_of(<<"P.", "20257403">>)[1].Netto =
                    license_info[1]["teams_rooms"].total
        ELSE rows_of(<<"P.", "20257403">>) = <<>>

\* a total of 400,125 is booked as 400,12
C4_Witness ==
    /\ generated
    /\ present("teams_rooms")
    /\ license_info[1]["teams_rooms"].total = FParse(400125, 3)
    /\ rows_of(<<"P.", "20257403">>)[1].Netto = FParse(40012, 2)

sum_netto == sum_floats([i \in 1..Len(the_rows) |-> the_rows[i].Netto])

\* the totals of the matched types other than power_bi, and the roster's
\* headcount x power_bi unit_price
conserved_amount ==
    LET others == SelectSeq(license_types, LAMBDA t : t # "power_bi")
        totals == sum_floats([i \in 1..Len(others) |-> total_or_zero(others[i])])
    IN IF present("power_bi")
       THEN FAdd(totals, FMulInt(Len(users_data), unit_price_of_power_bi))
       ELSE totals

\* C7 (amended): the sum of Netto over the rows of generate_accounting_rows
\* differs from (the totals of the matched types other than power_bi +
\* headcount x power_bi unit_price) by no more than 0.01 for each row, the
\* rows being rounded to two decimals one by one.
C7_Conservation ==
    generated =>
        FLe(FAbsDiff(sum_netto, conserved_amount),
            FMulInt(Len(the_rows), FParse(1, 2)))

\* C7 as stated: the two sums are equal
C7_AsStated == generated => sum_netto = conserved_amount

\* one untagged and one tagged person at 150,005 each and a meeting room at
\* 400,125: the rows add up to 700,12
C7_Witness ==
    /\ generated
    /\ present("power_bi") /\ present("teams_rooms")
    /\ Len(users_data) = 2 /\ tagged_people = 1
    /\ Len(the_rows) = 4
    /\ sum_netto = FParse(70012, 2)
    /\ sum_netto # conserved_amount

(***************************************************************************)
(* Properties of validate_accounting_rows.  The amounts of the invoice and *)
(* of the rows are decimal numbers; the claims about the tolerance are     *)
(* stated on them, in thousandths, and the verdicts are those the code     *)
(* reaches on the floats.                                                  *)
(***************************************************************************)
validated == pc = "validated"

the_report == report[1]

Pow10(k) == IF k = 0 THEN 1 ELSE IF k = 1 THEN 10 ELSE IF k = 2 THEN 100 ELSE 1000

thousandths_of(tok) == tok.n * Pow10(3 - tok.k)

RECURSIVE sum_ints(_)
sum_ints(s) == IF s = <<>> THEN 0 ELSE Head(s) + sum_ints(Tail(s))

field_thousandths(license_type, field) ==
    sum_ints([i \in 1..Len(matches_of(license_type)) |->
                 thousandths_of(matches_of(license_type)[i][field])])

\* the decimal amount a Netto stands for
netto_thousandths(row) == CHOOSE c \in NettoThousandths : FParse(c, 3) = row.Netto

Abs(i) == IF i < 0 THEN 0 - i ELSE i

\* |a - b| <= 0.02
decimal_within_tolerance(a, b) == Abs(a - b) <= 20

expected_automation_thousandths ==
    field_thousandths("power_automate_rpa", "total")
    + field_thousandths("power_automate_plan", "total")
    + field_thousandths("power_automate_prem", "total")
    + (IF matches_of("power_bi") # <<>>
       THEN tagged_people * (field_thousandths("power_bi", "unit_price")
                             \div Len(matches_of("power_bi")))
       ELSE 0)

expected_workplace_thousandths ==
    field_thousandths("teams_eea", "total") + field_thousandths("copilot", "total")
    + field_thousandths("ms365_eea", "total")

verdict_of(ok) == IF ok THEN "ok" ELSE "diff"

\* C8 as stated: each of the automation, workplace and meeting-room checks
\* reports pass exactly when |Netto of the row - amount expected from the
\* license data| <= 0.02, and a mismatch otherwise; 0.02 itself passes.
C8_AsStated ==
    validated =>
        /\ the_report.automation =
               verdict_of(decimal_within_tolerance(
                   netto_thousandths(rows_of(<<"P.", "20257601">>)[1]),
                   expected_automation_thousandths))
        /\ the_report.ms365 =
               verdict_of(decimal_within_tolerance(
                   netto_thousandths(rows_of(<<"P.", "20257407">>)[1]),
                   expected_workplace_thousandths))
        /\ rows_of(<<"P.", "20257403">>) # <<>> =>
               the_report.teams =
                   verdict_of(decimal_within_tolerance(
                       netto_thousandths(rows_of(<<"P.", "20257403">>)[1]),
                       field_thousandths("teams_rooms", "total")))

bucket_verdict_as_stated(verdict, netto, expected) ==
    Abs(netto - expected) # 20 => verdict = verdict_of(decimal_within_tolerance(netto, expected))

\* C8 away from the boundary: when the difference is not exactly 0.02, each
\* of the three checks reports as C8 states.
C8_AwayFromBoundary ==
    validated =>
        /\ bucket_verdict_as_stated(the_report.automation,
               netto_thousandths(rows_of(<<"P.", "20257601">>)[1]),
               expected_automation_thousandths)
        /\ bucket_verdict_as_stated(the_report.ms365,
               netto_thousandths(rows_of(<<"P.", "20257407">>)[1]),
               expected_workplace_thousandths)
        /\ rows_of(<<"P.", "20257403">>) # <<>> =>
               bucket_verdict_as_stated(the_report.teams,
                   netto_thousandths(rows_of(<<"P.", "20257403">>)[1]),
                   field_thousandths("teams_rooms", "total"))

\* robots for 1,00 and an automation row of 1,02: the difference is 0,02 and
\* the check reports a mismatch, abs(1.02 - 1.0) being 0.020000000000000018
C8_Witness ==
    /\ validated
    /\ expected_automation_thousandths = 1000
    /\ rows_of(<<"P.", "20257601">>)[1].Netto = FParse(102, 2)
    /\ the_report.automation = "diff"

\* no robots and an automation row of 0,02: the check reports pass; with a
\* row of 0,021 it reports a mismatch
C8_WitnessPass ==
    /\ validated
    /\ expected_automation_thousandths = 0
    /\ rows_of(<<"P.", "20257601">>)[1].Netto = FParse(2, 2)
    /\ the_report.automation = "ok"

C8_WitnessMismatch ==
    /\ validated
    /\ expected_automation_thousandths = 0
    /\ rows_of(<<"P.", "20257601">>)[1].Netto = FParse(21, 3)
    /\ the_report.automation = "diff"

sum_netto_thousandths ==
    sum_ints([i \in 1..Len(the_rows) |-> netto_thousandths(the_rows[i])])

\* C9 as stated: with the total of the invoice extracted, the whole-invoice
\* check reports pass exactly when |sum of Netto - invoice total| <= 0.02;
\* without it the extraction does not fail, and the check is reported as not
\* available, never as a mismatch.
C9_AsStated ==
    /\ (pc # "parse_license_info" /\ the_text.summa_avtal = None) =>
           raised \notin {Some("ValueError: could not convert string to float"),
                       Some("ValueError: Ingen licensinformation hittades i texten")}
    /\ validated =>
           IF the_text.summa_avtal # None
           THEN the_report.total =
                    IF decimal_within_tolerance(sum_netto_thousandths,
                                                thousandths_of(the_text.summa_avtal[1]))
                    THEN "ok" ELSE "fel"
           ELSE the_report.total = "not_available"

\* C9 away from the boundary: when the difference is not exactly 0.02, the
\* whole-invoice check reports as C9 states.
C9_AwayFromBoundary ==
    validated =>
        IF the_text.summa_avtal # None
        THEN Abs(sum_netto_thousandths - thousandths_of(the_text.summa_avtal[1])) # 20 =>
                 the_report.total =
                     IF decimal_within_tolerance(sum_netto_thousandths,
                                                 thousandths_of(the_text.summa_avtal[1]))
                     THEN "ok" ELSE "fel"
        ELSE the_report.total = "not_available"

\* rows of 1,02 and 1,00 on an invoice of 2,00: the difference is 0,02 and
\* the check reports an error
C9_Witness ==
    /\ validated
    /\ the_text.summa_avtal = Some(token(200, 2))
    /\ sum_netto_thousandths = 2020
    /\ the_report.total = "fel"

\* without the total of the invoice the check is not available
C9_WitnessSkipped ==
    /\ validated
    /\ the_text.summa_avtal = None
    /\ license_info[1]["invoice_total"] = None
    /\ the_report.total = "not_available"

untagged_people == Len(users_data) - tagged_people

\* C10 as stated: validate_accounting_rows compares the sum of Netto of the
\* per-group rows with (people not tagged 'Automation') x power_bi unit
\* price, and reports pass when they agree within the tolerance and a
\* mismatch when they do not.
C10_AsStated ==
    validated =>
        the_report.power_bi =
            verdict_of(decimal_within_tolerance(
                sum_ints([i \in 1..Len(group_rows) |-> netto_thousandths(group_rows[i])]),
                IF matches_of("power_bi") # <<>>
                THEN untagged_people * (field_thousandths("power_bi", "unit_price")
                                        \div Len(matches_of("power_bi")))
                ELSE 0))

\* a per-group row of 1,00 although nobody of the roster is untagged: the
\* sum is written to the log and nothing is reported about it
C10_Witness ==
    /\ validated
    /\ present("power_bi")
    /\ untagged_people = 0
    /\ group_rows # <<>>
    /\ the_report.power_bi_total = FParse(100, 2)
    /\ the_report.power_bi = "sum_only"
    /\ the_report.automation = "ok" /\ the_report.ms365 = "ok"

(***************************************************************************)
(* Properties of a run of process_invoice.                                 *)
(***************************************************************************)
no_license_data == Some("ValueError: Ingen licensinformation hittades i texten")

nothing_matched == ocr_text # None /\ the_text.lines = <<>>

\* C6 as stated: parse_license_info fails with the no-license-data error
\* exactly when no license type matched in the text, and the run then ends
\* before generate_accounting_rows is called; when a type matched, the
\* extraction does not fail with that error.
C6_AsStated ==
    /\ raised = no_license_data => nothing_matched
    /\ nothing_matched =>
           /\ license_info = None
           /\ accounting_rows = None
           /\ pc \in {"save_backup_ocr", "parse_license_info", "raised"}
           /\ (pc = "raised" /\ raised # Some("OSError")) => raised = no_license_data

\* a text without any billing line is processed to the end: the result of
\* the extraction holds 'invoice_total' alone, and the workbook has the
\* automation row and the workplace row, of 0 each
C6_Witness ==
    /\ nothing_matched
    /\ pc = "done"
    /\ DOMAIN license_info[1] = {"invoice_total"}
    /\ Len(the_rows) = 2
    /\ \A i \in 1..2 : the_rows[i].Netto = FZero
    /\ \E i \in 1..Len(files) : files[i].name[1] = "kontering"

written(kind) == \E i \in 1..Len(files) : files[i].name[1] = kind

\* the rows do not add up to the total of the invoice within the tolerance
invoice_mismatch ==
    /\ license_info # None /\ accounting_rows # None
    /\ license_info[1]["invoice_total"] # None
    /\ ~FLe(FAbsDiff(sum_netto, license_info[1]["invoice_total"][1]), FParse(2, 2))

\* the meeting-room check of step 4 finds a mismatch
meeting_room_mismatch ==
    /\ license_info # None /\ accounting_rows # None
    /\ present("teams_rooms")
    /\ rows_of(<<"P.", "20257403">>) # <<>>
    /\ FRound2(FMul(license_info[1]["teams_rooms"].total,
                    license_info[1]["teams_rooms"].unit_price))
           # FRound2(rows_of(<<"P.", "20257403">>)[1].Netto)

validation_called ==
    pc \notin {"extract_text_from_pdf", "save_backup_ocr", "parse_license_info",
               "save_backup_parsed", "generate_accounting_rows", "save_backup_rows",
               "validate_accounting_rows"}
    /\ written("accounting_rows")

\* C11: in a run of process_invoice whose rows miss the total of the invoice
\* or fail a bucket check, validate_accounting_rows returns normally, and the
\* run goes on to compose the comment and to write the accounting table:
\* nothing but a failure to write that table ends it before, and it always
\* comes to the written table or to that failure.
C11_MismatchNeverAborts ==
    /\ []((validation_called /\ (invoice_mismatch \/ meeting_room_mismatch)) =>
            /\ report # None
            /\ \/ pc \in {"generate_invoice_comment", "save_to_excel"}
               \/ pc = "done" /\ comment # None /\ written("kontering")
               \/ pc = "raised" /\ raised = Some("OSError") /\ comment # None)
    /\ (pc = "validate_accounting_rows" /\ (invoice_mismatch \/ meeting_room_mismatch))
           ~> (\/ pc = "done" /\ comment # None /\ written("kontering")
               \/ pc = "raised" /\ raised = Some("OSError") /\ comment # None)

\* a run whose rows add up to 0 on an invoice of 2,00: the mismatch is
\* reported, the comment is composed and the table is written
C11_Witness ==
    /\ pc = "done"
    /\ invoice_mismatch
    /\ the_report.total = "fel"
    /\ comment # None
    /\ written("kontering")

\* a persistence step (save_backup or save_to_excel) failed and ended the run
persistence_failed == pc = "raised" /\ raised = Some("OSError")

\* the result of the run is complete in memory
fully_computed ==
    /\ license_info # None
    /\ accounting_rows # None
    /\ report # None
    /\ comment # None

\* C12: whenever a persistence step fails and ends the run of process_invoice,
\* the license aggregate, the accounting rows, the validation and the comment
\* have all been computed already (no persistence step precedes a computation
\* step).
C12_AsStated == persistence_failed => fully_computed

\* the write of the OCR snapshot fails: the run ends before anything was parsed
C12_Witness ==
    /\ persistence_failed
    /\ ocr_text # None
    /\ files = <<>>
    /\ license_info = None /\ accounting_rows = None /\ report = None /\ comment = None

\* parse_license_info raised while it read the text
extraction_failed ==
    /\ pc = "raised"
    /\ raised \in {Some("ValueError: could not convert string to float"),
                   Some("ValueError: Ingen licensinformation hittades i texten")}

\* C13: when parse_license_info or generate_accounting_rows fails, the run
\* ends at that step, no later step has run, and the run has produced none of
\* its outputs: no accounting table, no audit snapshot, no comment.
C13_AsStated ==
    extraction_failed =>
        /\ license_info = None /\ accounting_rows = None /\ report = None
        /\ comment = None
        /\ files = <<>>

\* the text has an amount float() cannot read: the run ends at the parse, no
\* later step has run, and the snapshot of the OCR text is on the disk
C13_Witness ==
    /\ extraction_failed
    /\ license_info = None /\ accounting_rows = None /\ report = None
    /\ comment = None
    /\ Len(files) = 1 /\ files[1].name[1] = "ocr_backup"

\* the writes of audit snapshots of the run, in the order they happened
snapshot_writes == {i \in 1..Len(files) : files[i].name[1] # "kontering"}

\* C16: within a run of process_invoice no two writes of a snapshot use the
\* same file name, whatever the clock read at each write, so that no snapshot
\* is overwritten.
C16_AsStated ==
    \A i, j \in snapshot_writes : i # j => files[i].name # files[j].name

\* parse_license_info read the clock in the second process_invoice took its
\* timestamp in: the snapshot parse_license_info wrote is overwritten by the
\* one process_invoice writes under the same name, with another content
C16_Witness ==
    \E i, j \in snapshot_writes :
        /\ i < j
        /\ files[i].name = files[j].name
        /\ files[i].name[1] = "parsed_licenses"
        /\ files[i].data = "{'license_info': license_info}"
        /\ files[j].data = "license_info"

\* get_project_settings was called, with this identifier
looked_up == settings # None
the_project_id == settings[1].project_id
normalized_id == SelectSeq(the_project_id, LAMBDA part : part # "P.")
table_rows == SelectSeq(project_settings, LAMBDA r : r.ProjektID = normalized_id)

\* the record the claim expects for an identifier no row of the table has
builtin_record ==
    CASE normalized_id = <<"20257601">> ->
            [KonProj |-> <<"P.", "20257601">>, Aktivitet |-> "050", ProjKat |-> "5420",
             Mottagare |-> "Digital Utveckling och integration"]
      [] normalized_id \in {<<"20257407">>, <<"20257403">>} ->
            [KonProj |-> <<"P.">> \o normalized_id, Aktivitet |-> "738",
             ProjKat |-> "5420", Mottagare |-> "Digital Arbetsplats"]
      [] OTHER ->
            [KonProj |-> <<"P.">> \o normalized_id, Aktivitet |-> "738",
             ProjKat |-> "5420", Mottagare |-> "Okand mottagare"]

resolved_in_order ==
    /\ settings[1].returned # None
    /\ LET returned == settings[1].returned[1]
       IN /\ returned.KonProj = <<"P.">> \o normalized_id
          /\ IF table_rows # <<>>
             THEN /\ returned.Aktivitet = table_rows[1].Aktivitet
                  /\ returned.ProjKat = table_rows[1].ProjKat
                  /\ returned.Mottagare = table_rows[1].Mottagare
             ELSE returned = builtin_record

\* C14: get_project_settings never fails, whatever the identifier and the
\* settings table: it returns the first row of the table for the normalized
\* identifier if there is one, else the built-in record of a known project,
\* else the generic record, always with Kon/Proj = 'P.' + the normalized
\* identifier.
C14_AsStated ==
    looked_up => (raised = None /\ resolved_in_order)

\* the same on the tables that have all the required columns
C14_OnCompleteTables ==
    (looked_up /\ missing_columns(project_settings) = <<>>) =>
        (raised = None /\ resolved_in_order)

\* the table has a row of the project and no column 'ProjKat':
\* get_project_settings raises KeyError
C14_Witness ==
    /\ looked_up
    /\ pc = "get_project_settings"
    /\ table_rows # <<>>
    /\ "ProjKat" \notin DOMAIN table_rows[1]
    /\ raised = Some("KeyError: 'ProjKat'")
    /\ settings[1].returned = None

\* the value of a column for a project: the table's if the table has a row
\* of the project and the column, else the built-in default
value_or_default(project_id, col, default) ==
    LET rows == SelectSeq(project_settings, LAMBDA r : r.ProjektID = project_id)
    IN IF rows # <<>> /\ col \in DOMAIN rows[1] THEN rows[1][col] ELSE default

row_with_defaults(project_id, Aktivitet) ==
    /\ rows_of(<<"P.">> \o project_id) # <<>>
    /\ LET row == rows_of(<<"P.">> \o project_id)[1]
       IN /\ row.Aktivitet = value_or_default(project_id, "Aktivitet", Aktivitet)
          /\ row.ProjKat = value_or_default(project_id, "ProjKat", "5420")

key_error ==
    raised \in {Some("KeyError: 'ProjektID'"), Some("KeyError: 'Kon/Proj'"),
                Some("KeyError: 'Aktivitet'"), Some("KeyError: 'ProjKat'"),
                Some("KeyError: 'Mottagare'")}

\* C15: a settings table that lacks required columns is not fatal:
\* _load_excel_data completes, and the run that follows produces the
\* automation and the workplace row, with the built-in defaults in the place
\* of the missing data.
C15_AsStated ==
    (pc # "_load_excel_data" /\ ~looked_up /\ missing_columns(project_settings) # <<>>) =>
        /\ ~key_error
        /\ pc \in {"generated", "commented"} =>
              /\ accounting_rows # None
              /\ row_with_defaults(<<"20257601">>, "050")
              /\ row_with_defaults(<<"20257407">>, "738")

\* the sheet has no column 'ProjektID': _load_excel_data raises KeyError and
\* no InvoiceHelper is constructed
C15_Witness ==
    /\ pc = "raised"
    /\ raised = Some("KeyError: 'ProjektID'")
    /\ project_settings # <<>>
    /\ "ProjektID" \notin DOMAIN project_settings[1]
    /\ license_info = None

\* the sheet has the projects' rows and no column 'ProjKat': the object is
\* constructed and generate_accounting_rows raises KeyError
C15_WitnessAllocation ==
    /\ pc = "raised"
    /\ raised = Some("KeyError: 'ProjKat'")
    /\ license_info # None
    /\ accounting_rows = None

\* the sheet lacks columns and has no row of the three projects: the run
\* produces the rows with the built-in defaults
C15_WitnessDefaults ==
    /\ pc = "commented"
    /\ missing_columns(project_settings) # <<>>
    /\ row_with_defaults(<<"20257601">>, "050")
    /\ row_with_defaults(<<"20257407">>, "738")

\* the lines of section 2 of the comment, in their order
receiver_lines == SelectSeq(comment[1], LAMBDA p : p.part = "receiver")

\* the license types of the three buckets and their names in the comment
bucket_types(bucket) ==
    CASE bucket = "automation" ->
            <<"power_automate_rpa", "power_automate_plan", "power_automate_prem">>
      [] bucket = "workplace" -> <<"teams_eea", "copilot", "ms365_eea">>
      [] bucket = "meeting_room" -> <<"teams_rooms">>

license_name(license_type) ==
    CASE license_type = "power_automate_rpa"  -> "Power Automate unattended RPA add-on"
      [] license_type = "power_automate_plan" -> "Power Automate with att RPA plan"
      [] license_type = "power_automate_prem" -> "Power Automate prem"
      [] license_type = "teams_eea"           -> "MS Teams EEA"
      [] license_type = "copilot"             -> "MS Copilot for MS 365"
      [] license_type = "ms365_eea"           -> "MS 365 E3 EEA (no Teams)"
      [] license_type = "teams_rooms"         -> "MS Teams Rooms Pro"

\* the recipient a bucket resolves to
recipient(bucket) ==
    CASE bucket = "automation" ->
            value_or_default(<<"20257601">>, "Mottagare",
                             "Digital Utveckling och integration")
      [] bucket = "workplace" ->
            value_or_default(<<"20257407">>, "Mottagare", "Digital Arbetsplats")
      [] bucket = "meeting_room" ->
            value_or_default(<<"20257403">>, "Mottagare", "Digital Arbetsplats")

Buckets == <<"automation", "workplace", "meeting_room">>

listed(bucket, license_type) ==
    \E i \in 1..Len(receiver_lines) :
        /\ receiver_lines[i].receiver = recipient(bucket)
        /\ \E k \in 1..Len(receiver_lines[i].licenses) :
              receiver_lines[i].licenses[k] = license_name(license_type)

\* C17: section 2 of the comment has one line for each recipient, and every
\* license type on the invoice is named on the line of the recipient its
\* bucket resolves to, also when two or three buckets resolve to one
\* recipient.
C17_AsStated ==
    pc = "commented" =>
        /\ \A i, j \in 1..Len(receiver_lines) :
              i # j => receiver_lines[i].receiver # receiver_lines[j].receiver
        /\ \A b \in 1..Len(Buckets) :
              \A t \in 1..Len(bucket_types(Buckets[b])) :
                  present(bucket_types(Buckets[b])[t]) =>
                      listed(Buckets[b], bucket_types(Buckets[b])[t])

\* the automation and the workplace bucket resolve to one recipient, the
\* invoice has licenses of both, and the name of the automation license is
\* on no line of the comment
C17_Witness ==
    /\ pc = "commented"
    /\ recipient("automation") = recipient("workplace")
    /\ present("power_automate_rpa") /\ present("copilot")
    /\ listed("workplace", "copilot")
    /\ ~listed("automation", "power_automate_rpa")
    /\ \A i \in 1..Len(receiver_lines) :
          \A k \in 1..Len(receiver_lines[i].licenses) :
              receiver_lines[i].licenses[k] # license_name("power_automate_rpa")

\* a bucket has something to list: one of its license types is on the
\* invoice, or, for the automation bucket, the roster has an Automation person
bucket_listed(bucket) ==
    \/ \E t \in 1..Len(bucket_types(bucket)) : present(bucket_types(bucket)[t])
    \/ bucket = "automation" /\ tagged_people > 0

\* a sequence without the later occurrences of its elements
first_occurrences(seq) ==
    LET firsts == sorted({i \in 1..Len(seq) : \A j \in 1..(i - 1) : seq[j] # seq[i]})
    IN [k \in 1..Len(firsts) |-> seq[firsts[k]]]

expected_receivers ==
    first_occurrences(
        LET listed_buckets == SelectSeq(Buckets, bucket_listed)
        IN [i \in 1..Len(listed_buckets) |-> recipient(listed_buckets[i])])

\* C18: the recipient lines of the comment are in the order in which the
\* buckets meet their recipients: the automation bucket's, then the workplace
\* bucket's, then the meeting-room bucket's, a recipient met again keeping
\* its place, whatever the names and the order of the rows of the table.
C18_RecipientOrder ==
    pc = "commented" =>
        [i \in 1..Len(receiver_lines) |-> receiver_lines[i].receiver]
            = expected_receivers

\* three recipients whose names and table rows are in the opposite order of
\* their buckets, and a recipient met again by the third bucket
C18_Witness ==
    /\ pc = "commented"
    /\ \/ /\ Len(receiver_lines) = 3
          /\ receiver_lines[1].receiver = "Zeta"
          /\ receiver_lines[2].receiver = "Beta"
          /\ receiver_lines[3].receiver = "Alfa"
          /\ project_settings[1].Mottagare = "Alfa"
       \/ /\ Len(receiver_lines) = 2
          /\ bucket_listed("meeting_room")
          /\ recipient("meeting_room") = recipient("automation")
          /\ receiver_lines[1].receiver = "Team IT"
          /\ receiver_lines[2].receiver = "Team Arbetsplats"

\* the run validated the rows it generated from the same license_info
self_validated ==
    /\ report # None
    /\ accounting_rows # None
    /\ license_info # None
    /\ accounting_rows[1] =
           generate_accounting_rows(license_info[1], users_data, project_settings)

\* C19: when validate_accounting_rows is applied to the rows that
\* generate_accounting_rows produced from the same license_info, none of the
\* checks of the buckets and of the licenses (automation, workplace, meeting
\* room, Copilot, MS365 EEA, Power Automate Prem) reports a mismatch or a
\* missing row.
C19_AsStated ==
    self_validated =>
        /\ report[1].automation = "ok"
        /\ report[1].ms365 = "ok"
        /\ report[1].teams \in {"ok", "skipped"}
        /\ report[1].teams_room \in {"ok", "skipped"}
        /\ report[1].copilot \in {"ok", "skipped"}
        /\ report[1].ms365_eea \in {"ok", "skipped"}
        /\ report[1].prem \in {"ok", "skipped"}

\* the three comparisons of a bucket's row with the sum of its licenses pass
\* on the generated rows
C19_BucketSums ==
    self_validated =>
        /\ report[1].automation = "ok"
        /\ report[1].ms365 = "ok"
        /\ report[1].teams \in {"ok", "skipped"}

\* an invoice with a Copilot line whose rows add up to its total: the rows
\* are the generated ones, the total is confirmed, and the Copilot check
\* reports that it found no row
C19_Witness ==
    /\ self_validated
    /\ present("copilot")
    /\ report[1].total = "ok"
    /\ report[1].ms365 = "ok"
    /\ report[1].copilot = "no_row"

\* an invoice with a meeting-room license: the check of step 4 reports a
\* mismatch on the generated row
C19_WitnessMeetingRoom ==
    /\ self_validated
    /\ present("teams_rooms")
    /\ report[1].teams = "ok"
    /\ report[1].teams_room = "fel"

=============================================================================
